---- MODULE Spec2Model ----
(***************************************************************************)
(* A model of rezplugins/package_repository/filesystem.py: the filesystem  *)
(* package repository of rez.  The state is the directory tree under the   *)
(* repository's location, the resource registry, the memoisation layers    *)
(* (mem_cached listings, lru_cache'd facade queries, cached_property       *)
(* fields of resources) and the results the facade handed out.             *)
(***************************************************************************)
EXTENDS Integers, Sequences, FiniteSets, TLC

VARIABLES
    fs,               \* path (sequence of entry names under location) -> node
    clock,            \* time of the last change made to the tree
    pool,             \* the resource registry: set of resources [id, key]
    nextId,           \* identity given to the next constructed resource
    returned,         \* every resource some get_resource call has returned
    tpc,              \* per caller: position inside a concurrent get_resource
    tkey,             \* per caller: the key being resolved
    listdirCache,     \* mem_cached(DataType.listdir): cache key -> listing
    lruFamily,        \* lru_cache of _get_family: name -> result
    lruFamilies,      \* lru_cache of _get_families: <<>> or <<result>>
    lruPackages,      \* lru_cache of _get_packages: family id -> result
    lruVariants,      \* lru_cache of _get_variants: package id -> result
    cachedFilepath,   \* cached_property _filepath_and_format: package id -> value
    cachedHandle,     \* cached_property state_handle: package id -> value
    cachedData,       \* the loaded document of a resource: id -> document
    err,              \* the exception the last operation raised, "" if none
    firstFamily,      \* name -> <<result>> of the first get_package_family(name)
    lastFamily,       \* name -> [at, res] of the last get_package_family(name)
    firstFamilies,    \* <<result>> of the first iter_package_families
    lastFamilies,     \* [at, res] of the last iter_package_families
    lastIter,         \* family id -> [at, res] of the last family.iter_packages()
    firstRepoIter,    \* family id -> result of the first repository.iter_packages
    lastRepoIter,     \* family id -> [at, res] of the last repository.iter_packages
    firstData,        \* package id -> outcome of the first data access
    lastData,         \* package id -> [at, out] of the last data access
    lastHandle,       \* package id -> [at, res] of the last state_handle read
    lastVariants,     \* package id -> result of the last iter_variants
    clArgs,           \* arguments of the _update_changelog call under study
    clResult,         \* <<>> before the call, <<returned data>> after it
    cachedParent,     \* cached_property parent: resource id -> parent resource
    lastReleaseTime,  \* family id -> [at, out, res] of the last get_last_release_time
    firstHandle       \* package id -> [at, res] of the first read of its state handle

fsVars == <<fs, clock>>
regVars == <<pool, nextId, returned>>
threadVars == <<tpc, tkey>>
rootCacheVars == <<lruFamily, lruFamilies>>
pkgCacheVars == <<lruPackages, lruVariants, cachedFilepath, cachedHandle, cachedData>>
rootObsVars == <<firstFamily, lastFamily, firstFamilies, lastFamilies>>
pkgObsVars == <<lastIter, firstRepoIter, lastRepoIter, firstData, lastData, lastHandle,
                lastVariants>>
clVars == <<clArgs, clResult>>
linkVars == <<cachedParent, lastReleaseTime, firstHandle>>
vars == <<fsVars, regVars, threadVars, listdirCache, rootCacheVars, pkgCacheVars,
          err, rootObsVars, pkgObsVars, clVars, linkVars>>

-----------------------------------------------------------------------------
(* Bounds of the model. *)

MaxClock == 2
MaxObjects == 4
MaxRegistryChanges == 1
MaxVariants == 2
MaxText == 5
MaxLines == 2
MaxOverrides == 2
MaxBudget == 1

-----------------------------------------------------------------------------
(* Python values.  None is the empty tuple and a present optional value x  *)
(* is <<x>>, so that None never has to be compared with a string or an     *)
(* integer.  A document (dict) is a function from its keys to its values.  *)

None == <<>>
Some(x) == <<x>>
EmptyDoc == [k \in {} |-> 0]

\* dict.update: the keys of d are set in data, the others are kept.
DictUpdate(data, d) ==
    [k \in DOMAIN data \cup DOMAIN d |-> IF k \in DOMAIN d THEN d[k] ELSE data[k]]

\* del data[k]
DictDel(data, k) == [j \in DOMAIN data \ {k} |-> data[j]]

\* data[k] = v
DictSet(data, k, v) == [j \in DOMAIN data \cup {k} |-> IF j = k THEN v ELSE data[j]]

-----------------------------------------------------------------------------
(* The directory tree under the repository's location.                     *)

Location == "/loc"
Root == <<>>            \* the path of the location itself
FamilyNames == {"foo", "bar"}
InvalidNames == {"-x"}
Stems == FamilyNames \cup InvalidNames
FormatExts == <<"py", "yaml">>
RootExts == {"py", "yaml", "txt"}
VersionNames == {"1.0", "1.1"}
HiddenNames == {".hidden"}

\* "%s.%s" % (name, extension)
FileName(name, ext) == name \o "." \o ext

\* The order in which os.listdir reports the entries of a directory.
EntryOrder ==
    <<"foo", "bar", "-x",
      "foo.py", "foo.yaml", "foo.txt", "bar.py", "bar.yaml", "bar.txt",
      "-x.py", "-x.yaml", "-x.txt",
      ".hidden", "1.0", "1.1", "package.py", "package.yaml",
      "release.yaml", ".metadata", "changelog.txt", "release_time.txt">>

\* A node of the tree: st_ino is fixed when the entry is created, st_mtime is
\* the time of its last change, data is what a file holds.
Dir(i, t) == [type |-> "dir", ino |-> i, mtime |-> t, data |-> EmptyDoc]
File(i, t, d) == [type |-> "file", ino |-> i, mtime |-> t, data |-> d]

exists(path) == path \in DOMAIN fs
isdir(path) == exists(path) /\ fs[path].type = "dir"
isfile(path) == exists(path) /\ fs[path].type = "file"
getmtime(path) == fs[path].mtime
stat(path) == fs[path]
join(path, name) == Append(path, name)
Parent(path) == SubSeq(path, 1, Len(path) - 1)
IsPrefix(p, q) == Len(p) <= Len(q) /\ SubSeq(q, 1, Len(p)) = p

\* os.listdir(path), for a path that is a directory
listdir(path) ==
    SelectSeq(EntryOrder, LAMBDA n : exists(join(path, n)))

\* os.path.splitext(name) for the entry names of the root directory
splitext(name) ==
    IF \E s \in Stems, e \in RootExts : name = FileName(s, e)
    THEN LET p == CHOOSE p \in Stems \X RootExts : name = FileName(p[1], p[2])
         IN <<p[1], "." \o p[2]>>
    ELSE <<name, "">>

\* name.startswith('.')
startswithDot(name) == name \in HiddenNames \cup {".metadata"}

\* rez.utils.formatting.is_valid_package_name
is_valid_package_name(name) == name \in FamilyNames

\* The tree after a change at time t to the entries of directory path.
Touch(tree, path, t) ==
    [tree EXCEPT ![path] = [@ EXCEPT !.mtime = t]]

\* The tree after an entry was created at path at time t.
WithEntry(tree, path, node, t) ==
    LET added == [q \in DOMAIN tree \cup {path} |-> IF q = path THEN node ELSE tree[q]]
    IN Touch(added, Parent(path), t)

\* The tree after the file at path was rewritten at time t: the file keeps its
\* inode and the directory holding it is not changed.
Rewritten(tree, path, d, t) ==
    [tree EXCEPT ![path] = [@ EXCEPT !.mtime = t, !.data = d]]

\* The tree after the entry at path, and everything below it, was removed.
WithoutEntry(tree, path, t) ==
    LET kept == {q \in DOMAIN tree : ~IsPrefix(path, q)}
    IN Touch([q \in kept |-> tree[q]], Parent(path), t)

-----------------------------------------------------------------------------
(* Resource keys: the (kind, parameters) pair handed to get_resource.      *)

FamilyKey(name) ==
    [kind |-> "filesystem.family",
     vars |-> ("location" :> Location @@ "name" :> name)]

CombinedFamilyKey(name, ext) ==
    [kind |-> "filesystem.family.combined",
     vars |-> ("location" :> Location @@ "name" :> name @@ "ext" :> ext)]

\* get_resource(FileSystemPackageResource.key, location=, name=)
PackageKey(name) ==
    [kind |-> "filesystem.package",
     vars |-> ("location" :> Location @@ "name" :> name)]

\* get_resource(FileSystemPackageResource.key, location=, name=, version=)
VersionedPackageKey(name, version) ==
    [kind |-> "filesystem.package",
     vars |-> ("location" :> Location @@ "name" :> name @@ "version" :> version)]

\* resource.get(param): the parameter's value, None when it was not given
Get(key, param) == IF param \in DOMAIN key.vars THEN key.vars[param] ELSE None

-----------------------------------------------------------------------------
(* The resource registry.                                                  *)

\* The registry's entry for key, as a set (empty when there is none).
Lookup(p, key) == {r \in p : r.key = key}

\* get_resource(key) run to completion against registry p with next identity
\* n: the memoised resource when there is one, else a new one, inserted.
get_resource(p, n, key) ==
    IF Lookup(p, key) # {}
    THEN [pool |-> p, nextId |-> n, res |-> CHOOSE r \in Lookup(p, key) : TRUE]
    ELSE [pool |-> p \cup {[id |-> n, key |-> key]}, nextId |-> n + 1,
          res |-> [id |-> n, key |-> key]]

\* get_resource applied to each key of a sequence in turn.
RECURSIVE ResolveAll(_, _, _)
ResolveAll(p, n, keys) ==
    IF keys = <<>>
    THEN [pool |-> p, nextId |-> n, res |-> <<>>]
    ELSE LET first == get_resource(p, n, Head(keys))
             rest == ResolveAll(first.pool, first.nextId, Tail(keys))
         IN [pool |-> rest.pool, nextId |-> rest.nextId,
             res |-> <<first.res>> \o rest.res]

Range(s) == {s[i] : i \in 1..Len(s)}

\* The sequences over S of length at most n
RECURSIVE SeqsUpTo(_, _)
SeqsUpTo(S, n) ==
    IF n = 0 THEN {<<>>}
    ELSE LET shorter == SeqsUpTo(S, n - 1)
         IN shorter \cup {Append(t, x) : t \in shorter, x \in S}

\* The concatenation of Op(s[1]), Op(s[2]), ...
RECURSIVE ConcatMap(_, _)
ConcatMap(Op(_), s) ==
    IF s = <<>> THEN <<>> ELSE Op(Head(s)) \o ConcatMap(Op, Tail(s))

-----------------------------------------------------------------------------
(* Directory listings (mem_cached with a key made of the directory's path, *)
(* inode and modification time).                                           *)

\* _get_file(path, name): <<filepath, format>>, <<None, None>> when neither
\* name.py nor name.yaml is a file under path.
_get_file(path, name) ==
    LET found == SelectSeq(FormatExts,
                           LAMBDA e : isfile(join(path, FileName(name, e))))
    IN IF found = <<>>
       THEN <<None, None>>
       ELSE <<Some(join(path, FileName(name, Head(found)))), Some(Head(found))>>

_get_family_dirs__key == <<Root, stat(Root).ino, stat(Root).mtime>>

\* ext_[1:] for an extension ".py" or ".yaml"
StripDot(ext) == CHOOSE e \in RootExts : "." \o e = ext

\* The entry _get_family_dirs appends for one name of the root listing.
FamilyDirEntry(name) ==
    IF isdir(join(Root, name))
    THEN IF is_valid_package_name(name) THEN <<(<<name, None>>)>> ELSE <<>>
    ELSE LET split == splitext(name)
         IN IF split[2] \in {".py", ".yaml"} /\ is_valid_package_name(split[1])
            THEN <<(<<split[1], Some(StripDot(split[2]))>>)>>
            ELSE <<>>

\* The body of _get_family_dirs: a fresh scan of the root directory.
ScanFamilyDirs == ConcatMap(FamilyDirEntry, listdir(Root))

\* mem_cached: the value stored under the key when there is one, else the
\* value computed now (which is then stored under the key).
MemCached(cache, key, computed) ==
    IF key \in DOMAIN cache THEN cache[key] ELSE computed

MemStore(cache, key, computed) ==
    IF key \in DOMAIN cache THEN cache ELSE (key :> computed) @@ cache

_get_family_dirs == MemCached(listdirCache, _get_family_dirs__key, ScanFamilyDirs)

\* A listing key that leaves out the directory's modification time.
_get_version_dirs__key_without_mtime(root) == <<root, stat(root).ino, 0>>

_get_version_dirs__key(root) == <<root, stat(root).ino, stat(root).mtime>>

\* The body of _get_version_dirs: a fresh scan of directory root.
ScanVersionDirs(root) ==
    SelectSeq(listdir(root),
              LAMBDA n : ~startswithDot(n) /\ isdir(join(root, n)))

_get_version_dirs(root) ==
    MemCached(listdirCache, _get_version_dirs__key(root), ScanVersionDirs(root))

-----------------------------------------------------------------------------
(* Changes other processes make to the tree.  Every change takes a new     *)
(* time, which becomes the modification time of what it changes.           *)

Tick == clock < MaxClock /\ clock' = clock + 1

\* mkdir path
MkDir(path) ==
    /\ Tick
    /\ isdir(Parent(path)) /\ ~exists(path)
    /\ fs' = WithEntry(fs, path, Dir(clock + 1, clock + 1), clock + 1)

\* write d to the file at path, creating it when it does not exist
WriteFile(path, d) ==
    /\ Tick
    /\ isdir(Parent(path)) /\ ~isdir(path)
    /\ fs' = IF exists(path)
             THEN Rewritten(fs, path, d, clock + 1)
             ELSE WithEntry(fs, path, File(clock + 1, clock + 1, d), clock + 1)

\* rm -r path
Remove(path) ==
    /\ Tick
    /\ path # Root /\ exists(path)
    /\ fs' = WithoutEntry(fs, path, clock + 1)

-----------------------------------------------------------------------------
(* The repository facade: families.                                        *)

\* What the facade returned is recorded: the first result of a query, and the
\* last one with the time of the tree it was returned at.
RecordFamily(name, res) ==
    /\ firstFamily' = [firstFamily EXCEPT ![name] = IF @ = <<>> THEN <<res>> ELSE @]
    /\ lastFamily' = [lastFamily EXCEPT ![name] = [at |-> clock, res |-> res]]

\* The key _get_family resolves for name in the tree as it is now: None when
\* there is neither a directory name/ nor a file name.py or name.yaml.
FamilyProbe(name) ==
    IF isdir(join(Root, name))
    THEN Some(FamilyKey(name))
    ELSE LET found == _get_file(Root, name)
         IN IF found[1] # None
            THEN Some(CombinedFamilyKey(name, found[2][1]))
            ELSE None

\* _get_family with the family constructed directly instead of being resolved
\* through get_resource.
_get_family_unregistered(name) ==
    IF name \in DOMAIN lruFamily
    THEN /\ RecordFamily(name, lruFamily[name])
         /\ err' = ""
         /\ UNCHANGED <<regVars, lruFamily>>
    ELSE IF ~is_valid_package_name(name)
    THEN /\ err' = "PackageRequestError"
         /\ UNCHANGED <<regVars, lruFamily, firstFamily, lastFamily>>
    ELSE IF FamilyProbe(name) = None
    THEN /\ RecordFamily(name, None)
         /\ lruFamily' = (name :> None) @@ lruFamily
         /\ err' = ""
         /\ UNCHANGED regVars
    ELSE LET made == [id |-> nextId, key |-> FamilyProbe(name)[1]]
         IN /\ nextId < MaxObjects
            /\ pool' = pool
            /\ nextId' = nextId + 1
            /\ returned' = returned \cup {made}
            /\ RecordFamily(name, Some(made))
            /\ lruFamily' = (name :> Some(made)) @@ lruFamily
            /\ err' = ""

\* _get_family without the lru_cache: every call probes the tree again.
_get_family_unmemoized(name) ==
    IF ~is_valid_package_name(name)
    THEN /\ err' = "PackageRequestError"
         /\ UNCHANGED <<regVars, lruFamily, firstFamily, lastFamily>>
    ELSE IF FamilyProbe(name) = None
    THEN /\ RecordFamily(name, None)
         /\ err' = ""
         /\ UNCHANGED <<regVars, lruFamily>>
    ELSE LET got == get_resource(pool, nextId, FamilyProbe(name)[1])
         IN /\ pool' = got.pool
            /\ nextId' = got.nextId
            /\ returned' = returned \cup {got.res}
            /\ RecordFamily(name, Some(got.res))
            /\ err' = ""
            /\ UNCHANGED lruFamily

\* _get_family(name), memoised per name by lru_cache: an invalid name raises
\* (and nothing is memoised); else the split family when name/ is a
\* directory, else the combined family of the first of name.py, name.yaml
\* that is a file, else None.
_get_family(name) ==
    IF name \in DOMAIN lruFamily
    THEN /\ RecordFamily(name, lruFamily[name])
         /\ err' = ""
         /\ UNCHANGED <<regVars, lruFamily>>
    ELSE IF ~is_valid_package_name(name)
    THEN /\ err' = "PackageRequestError"
         /\ UNCHANGED <<regVars, lruFamily, firstFamily, lastFamily>>
    ELSE IF FamilyProbe(name) = None
    THEN /\ RecordFamily(name, None)
         /\ lruFamily' = (name :> None) @@ lruFamily
         /\ err' = ""
         /\ UNCHANGED regVars
    ELSE LET got == get_resource(pool, nextId, FamilyProbe(name)[1])
         IN /\ pool' = got.pool
            /\ nextId' = got.nextId
            /\ returned' = returned \cup {got.res}
            /\ RecordFamily(name, Some(got.res))
            /\ lruFamily' = (name :> Some(got.res)) @@ lruFamily
            /\ err' = ""

\* repository.get_package_family(name)
get_package_family(name) ==
    /\ _get_family(name)
    /\ UNCHANGED <<fsVars, threadVars, listdirCache, lruFamilies, pkgCacheVars,
                   firstFamilies, lastFamilies, pkgObsVars, clVars, linkVars>>

\* The key _get_families asks get_resource for, for one (name, ext) entry.
FamiliesKey(entry) ==
    IF entry[2] = None
    THEN FamilyKey(entry[1])
    ELSE CombinedFamilyKey(entry[1], entry[2][1])

RecordFamilies(res) ==
    /\ firstFamilies' = IF firstFamilies = <<>> THEN <<res>> ELSE firstFamilies
    /\ lastFamilies' = [at |-> clock, res |-> res]

\* _get_families without the lru_cache: every call lists the root again.
_get_families_unmemoized ==
    LET entries == _get_family_dirs
        keys == [i \in 1..Len(entries) |-> FamiliesKey(entries[i])]
        got == ResolveAll(pool, nextId, keys)
    IN /\ listdirCache' = MemStore(listdirCache, _get_family_dirs__key, ScanFamilyDirs)
       /\ pool' = got.pool
       /\ nextId' = got.nextId
       /\ returned' = returned \cup Range(got.res)
       /\ RecordFamilies(got.res)
       /\ UNCHANGED lruFamilies

\* _get_families(), memoised by lru_cache: one family per entry of
\* _get_family_dirs, in its order.
_get_families ==
    IF lruFamilies # <<>>
    THEN /\ RecordFamilies(lruFamilies[1])
         /\ UNCHANGED <<regVars, listdirCache, lruFamilies>>
    ELSE LET entries == _get_family_dirs
             keys == [i \in 1..Len(entries) |-> FamiliesKey(entries[i])]
             got == ResolveAll(pool, nextId, keys)
         IN /\ listdirCache' = MemStore(listdirCache, _get_family_dirs__key, ScanFamilyDirs)
            /\ pool' = got.pool
            /\ nextId' = got.nextId
            /\ returned' = returned \cup Range(got.res)
            /\ RecordFamilies(got.res)
            /\ lruFamilies' = <<got.res>>

\* repository.iter_package_families()
iter_package_families ==
    /\ _get_families
    /\ err' = ""
    /\ UNCHANGED <<fsVars, threadVars, lruFamily, pkgCacheVars,
                   firstFamily, lastFamily, pkgObsVars, clVars, linkVars>>

-----------------------------------------------------------------------------
(* Concurrent first access to the registry: a caller's get_resource is a   *)
(* lookup and, on a miss, a construction followed by an insert-if-absent.  *)

Callers == {"c1", "c2"}

\* The keys the callers resolve: those the facade resolves for the families.
RegistryKeys ==
    {FamilyKey("foo"), CombinedFamilyKey("foo", "py"), CombinedFamilyKey("bar", "yaml")}

GetResourceLookup(c, key) ==
    /\ tpc[c] = "idle"
    /\ IF Lookup(pool, key) # {}
       THEN /\ returned' = returned \cup Lookup(pool, key)
            /\ UNCHANGED threadVars
       ELSE /\ tpc' = [tpc EXCEPT ![c] = "constructing"]
            /\ tkey' = [tkey EXCEPT ![c] = Some(key)]
            /\ UNCHANGED returned
    /\ UNCHANGED <<pool, nextId>>
    /\ UNCHANGED <<fsVars, listdirCache, rootCacheVars, pkgCacheVars, err,
                   rootObsVars, pkgObsVars, clVars, linkVars>>

GetResourceInsert(c) ==
    /\ tpc[c] = "constructing"
    /\ LET got == get_resource(pool, nextId, tkey[c][1])
       IN /\ pool' = got.pool
          /\ nextId' = got.nextId
          /\ returned' = returned \cup {got.res}
    /\ tpc' = [tpc EXCEPT ![c] = "idle"]
    /\ tkey' = [tkey EXCEPT ![c] = None]
    /\ UNCHANGED <<fsVars, listdirCache, rootCacheVars, pkgCacheVars, err,
                   rootObsVars, pkgObsVars, clVars, linkVars>>

-----------------------------------------------------------------------------
(* Specification Spec: the root directory of the repository, its families, *)
(* and concurrent callers of the registry.                                 *)

EmptyMap == [k \in {} |-> 0]

RootTree == (Root :> Dir(0, 0))

\* Trees the repository may be constructed over.
InitialRootTrees ==
    LET plain == WithEntry(WithEntry(RootTree, <<"-x">>, Dir(-1, 0), 0),
                           <<"foo.txt">>, File(-2, 0, EmptyDoc), 0)
        withFoo == WithEntry(plain, <<"foo">>, Dir(-3, 0), 0)
        withBar == WithEntry(withFoo, <<"bar.yaml">>, File(-4, 0, EmptyDoc), 0)
    IN {plain, withBar}

InitCaches ==
    /\ pool = {} /\ nextId = 0 /\ returned = {}
    /\ tpc = [c \in Callers |-> "idle"]
    /\ tkey = [c \in Callers |-> None]
    /\ listdirCache = EmptyMap
    /\ lruFamily = EmptyMap /\ lruFamilies = <<>>
    /\ lruPackages = EmptyMap /\ lruVariants = EmptyMap
    /\ cachedFilepath = EmptyMap /\ cachedHandle = EmptyMap /\ cachedData = EmptyMap
    /\ err = ""
    /\ firstFamily = [n \in Stems |-> <<>>]
    /\ lastFamily = [n \in Stems |-> [at |-> -1, res |-> None]]
    /\ firstFamilies = <<>>
    /\ lastFamilies = [at |-> -1, res |-> <<>>]
    /\ lastIter = EmptyMap /\ firstRepoIter = EmptyMap /\ lastRepoIter = EmptyMap
    /\ firstData = EmptyMap /\ lastData = EmptyMap /\ lastHandle = EmptyMap
    /\ lastVariants = EmptyMap
    /\ cachedParent = EmptyMap /\ lastReleaseTime = EmptyMap
    /\ firstHandle = EmptyMap

NoChangelogCall == clArgs = None /\ clResult = None

Init ==
    /\ fs \in InitialRootTrees
    /\ clock = 0
    /\ InitCaches
    /\ NoChangelogCall

TreeUnchanged ==
    UNCHANGED <<regVars, threadVars, listdirCache, rootCacheVars, pkgCacheVars,
                err, rootObsVars, pkgObsVars, clVars, linkVars>>

MkFamilyDir(n) == MkDir(<<n>>) /\ TreeUnchanged

WriteFamilyFile(n, e) == WriteFile(<<FileName(n, e)>>, EmptyDoc) /\ TreeUnchanged

RemoveRootEntry(n) == Remove(<<n>>) /\ TreeUnchanged

\* The entries other processes create in the root directory.
MadeDirs == {"foo"}
MadeFiles == {<<"foo", "py">>, <<"foo", "yaml">>, <<"bar", "yaml">>}

Next ==
    \/ \E n \in MadeDirs : MkFamilyDir(n)
    \/ \E f \in MadeFiles : WriteFamilyFile(f[1], f[2])
    \/ \E n \in Range(EntryOrder) : RemoveRootEntry(n)
    \/ \E n \in Stems : get_package_family(n)
    \/ iter_package_families

Spec == Init /\ [][Next]_vars

-----------------------------------------------------------------------------
(* Specification SpecRegistry: callers resolving family keys concurrently, *)
(* beside the facade's own family queries and changes to the tree.         *)

NextRegistry ==
    \/ \E c \in Callers, key \in RegistryKeys : GetResourceLookup(c, key)
    \/ \E c \in Callers : GetResourceInsert(c)
    \/ \E n \in FamilyNames : get_package_family(n)
    \/ iter_package_families
    \/ clock < MaxRegistryChanges /\ MkFamilyDir("foo")
    \/ clock < MaxRegistryChanges /\ WriteFamilyFile("foo", "py")
    \/ \E n \in {"foo", "foo.py"} : clock < MaxRegistryChanges /\ RemoveRootEntry(n)

SpecRegistry == Init /\ [][NextRegistry]_vars

-----------------------------------------------------------------------------
(* Specification SpecFamilies: the family queries over every root          *)
(* directory made of the family directories and family files below; the    *)
(* tree does not change.                                                   *)

RootDirNames == {"foo", "bar"}
RootFileNames == {"foo.py", "foo.yaml", "bar.py", "bar.yaml"}

\* The root directory holding the directories dirs and the files files.
RootTreeOf(dirs, files) ==
    [p \in {Root} \cup {<<n>> : n \in dirs \cup files} |->
        IF p = Root THEN Dir(0, 0)
        ELSE IF p[1] \in dirs THEN Dir(-1, 0)
        ELSE File(-2, 0, EmptyDoc)]

InitFamilies ==
    /\ \E dirs \in SUBSET RootDirNames, files \in SUBSET RootFileNames :
          fs = RootTreeOf(dirs, files)
    /\ clock = 0
    /\ InitCaches
    /\ NoChangelogCall

NextFamilies ==
    \/ \E n \in Stems : get_package_family(n)
    \/ iter_package_families

SpecFamilies == InitFamilies /\ [][NextFamilies]_vars

-----------------------------------------------------------------------------
(* Split-layout resources: a family directory and its packages.            *)

\* cached_property: the value kept in the resource once computed, else the
\* value computed now (which is then kept).
cached_property(cache, id, computed) ==
    IF id \in DOMAIN cache THEN cache[id] ELSE computed

SetOnce(cache, id, computed) ==
    IF id \in DOMAIN cache THEN cache ELSE (id :> computed) @@ cache

\* FileSystemPackageFamilyResource.path
FamilyPath(fam) == join(Root, fam.key.vars["name"])

\* FileSystemPackageResource.path: the family directory, joined with the
\* version when the package has a (non-empty) one.
PackagePath(pkg) ==
    LET path == join(Root, pkg.key.vars["name"])
        ver_str == Get(pkg.key, "version")
    IN IF ver_str # None THEN join(path, ver_str[1]) ELSE path

\* iter_packages that goes on to the version directories after yielding the
\* unversioned package.
SplitPackageKeys_noreturn(fam) ==
    LET name == fam.key.vars["name"]
        versions == _get_version_dirs(FamilyPath(fam))
        versioned == [i \in 1..Len(versions) |->
                         VersionedPackageKey(name, Some(versions[i]))]
    IN IF _get_file(FamilyPath(fam), "package")[1] # None
       THEN <<PackageKey(name)>> \o versioned
       ELSE versioned

\* The keys FileSystemPackageFamilyResource.iter_packages resolves, in order:
\* the unversioned package alone when the family directory holds a package
\* file, else one package per listed version directory.
SplitPackageKeys(fam) ==
    LET name == fam.key.vars["name"]
        versions == _get_version_dirs(FamilyPath(fam))
    IN IF _get_file(FamilyPath(fam), "package")[1] # None
       THEN <<PackageKey(name)>>
       ELSE [i \in 1..Len(versions) |-> VersionedPackageKey(name, Some(versions[i]))]

\* Whether iter_packages reaches _get_version_dirs, and the listing cache
\* after it did.
ListsVersions(fam) == _get_file(FamilyPath(fam), "package")[1] = None

ListdirCacheAfter(fam) ==
    IF ListsVersions(fam)
    THEN MemStore(listdirCache, _get_version_dirs__key(FamilyPath(fam)),
                  ScanVersionDirs(FamilyPath(fam)))
    ELSE listdirCache

SplitFamilies == {r \in pool : r.key.kind = "filesystem.family"}
SplitPackages == {r \in pool : r.key.kind = "filesystem.package"}

\* family.iter_packages(), called on the family resource and run to its end.
\* Listing a family directory that is gone raises OSError (os.stat).
family_iter_packages(fam) ==
    /\ fam \in SplitFamilies
    /\ IF ListsVersions(fam) /\ ~isdir(FamilyPath(fam))
       THEN /\ err' = "OSError"
            /\ UNCHANGED <<regVars, listdirCache, lastIter>>
       ELSE LET got == ResolveAll(pool, nextId, SplitPackageKeys(fam))
            IN /\ pool' = got.pool
               /\ nextId' = got.nextId
               /\ returned' = returned \cup Range(got.res)
               /\ listdirCache' = ListdirCacheAfter(fam)
               /\ lastIter' = (fam.id :> [at |-> clock, res |-> got.res]) @@ lastIter
               /\ err' = ""
    /\ UNCHANGED <<fsVars, threadVars, rootCacheVars, pkgCacheVars, rootObsVars,
                   firstRepoIter, lastRepoIter, firstData, lastData, lastHandle,
                   lastVariants, clVars, linkVars>>

RecordRepoIter(fam, res) ==
    /\ firstRepoIter' = SetOnce(firstRepoIter, fam.id, res)
    /\ lastRepoIter' = (fam.id :> [at |-> clock, res |-> res]) @@ lastRepoIter

\* _get_packages(family), memoised per family resource by lru_cache: the
\* realised sequence of family.iter_packages().
_get_packages(fam) ==
    IF fam.id \in DOMAIN lruPackages
    THEN /\ RecordRepoIter(fam, lruPackages[fam.id])
         /\ err' = ""
         /\ UNCHANGED <<regVars, listdirCache, lruPackages>>
    ELSE IF ListsVersions(fam) /\ ~isdir(FamilyPath(fam))
    THEN /\ err' = "OSError"
         /\ UNCHANGED <<regVars, listdirCache, lruPackages, firstRepoIter, lastRepoIter>>
    ELSE LET got == ResolveAll(pool, nextId, SplitPackageKeys(fam))
         IN /\ pool' = got.pool
            /\ nextId' = got.nextId
            /\ returned' = returned \cup Range(got.res)
            /\ listdirCache' = ListdirCacheAfter(fam)
            /\ lruPackages' = (fam.id :> got.res) @@ lruPackages
            /\ RecordRepoIter(fam, got.res)
            /\ err' = ""

\* repository.iter_packages(package_family_resource)
iter_packages(fam) ==
    /\ fam \in SplitFamilies
    /\ _get_packages(fam)
    /\ UNCHANGED <<fsVars, threadVars, rootCacheVars, lruVariants, cachedFilepath,
                   cachedHandle, cachedData, rootObsVars, lastIter, firstData,
                   lastData, lastHandle, lastVariants, clVars, linkVars>>

-----------------------------------------------------------------------------
(* Texts, and the changelog of old package releases.                       *)

\* A text is a sequence of characters.  A changelog value is a text or a
\* list of lines.
Str(t) == [kind |-> "str", v |-> t]
List(l) == [kind |-> "list", v |-> l]

\* '\n'.join(lines)
RECURSIVE JoinLines(_)
JoinLines(lines) ==
    IF lines = <<>> THEN <<>>
    ELSE IF Len(lines) = 1 THEN lines[1]
    ELSE lines[1] \o <<"\n">> \o JoinLines(Tail(lines))

\* changelog[:maxlen] + "..."
Truncated(t, maxlen) ==
    SubSeq(t, 1, IF maxlen < Len(t) THEN maxlen ELSE Len(t)) \o <<".", ".", ".">>

\* _update_changelog that truncates every changelog longer than maxlen.
_update_changelog_at_maxlen(maxlen, file_format, data) ==
    IF file_format = "yaml"
    THEN IF "changelog" \in DOMAIN data /\ data["changelog"].v # <<>>
         THEN LET given == data["changelog"]
                  joined == IF given.kind = "list" THEN JoinLines(given.v) ELSE given.v
                  cut == IF Len(joined) > maxlen
                         THEN Truncated(joined, maxlen) ELSE joined
              IN IF given.kind = "list" \/ Len(joined) > maxlen
                 THEN DictSet(data, "changelog", Str(cut))
                 ELSE data
         ELSE data
    ELSE IF Len(data.v) > maxlen
         THEN Str(Truncated(data.v, maxlen))
         ELSE data

\* _update_changelog(file_format, data) under the budget maxlen
\* (config.max_package_changelog_chars).  For the yaml format data is a
\* document, whose changelog (when it has a non-empty one) is joined when it
\* is a list and cut when it is longer than maxlen + 3; for the other
\* formats data is a text, cut when it is longer than maxlen + 3.
_update_changelog(maxlen, file_format, data) ==
    IF file_format = "yaml"
    THEN IF "changelog" \in DOMAIN data /\ data["changelog"].v # <<>>
         THEN LET given == data["changelog"]
                  joined == IF given.kind = "list" THEN JoinLines(given.v) ELSE given.v
                  cut == IF Len(joined) > maxlen + 3
                         THEN Truncated(joined, maxlen) ELSE joined
              IN IF given.kind = "list" \/ Len(joined) > maxlen + 3
                 THEN DictSet(data, "changelog", Str(cut))
                 ELSE data
         ELSE data
    ELSE IF Len(data.v) > maxlen + 3
         THEN Str(Truncated(data.v, maxlen))
         ELSE data

-----------------------------------------------------------------------------
(* Loading a split-layout package.                                         *)

\* config.max_package_changelog_chars of the repository under study
ConfiguredBudget == MaxBudget

\* rez.serialise.load_from_file(filepath, format, update_data_callback): what
\* the file holds (a document, or for FileFormat.txt its text), passed
\* through the callback when one is given.
load_from_file(filepath, format) ==
    IF format = "txt" THEN Str(fs[filepath].data["text"]) ELSE fs[filepath].data

load_from_file_with(filepath, format, maxlen) ==
    _update_changelog(maxlen, format, load_from_file(filepath, format))

Whitespace == {" ", "\n"}

\* value.strip()
RECURSIVE lstrip(_)
lstrip(t) ==
    IF t # <<>> /\ Head(t) \in Whitespace THEN lstrip(Tail(t)) ELSE t

RECURSIVE rstrip(_)
rstrip(t) ==
    IF t # <<>> /\ t[Len(t)] \in Whitespace
    THEN rstrip(SubSeq(t, 1, Len(t) - 1)) ELSE t

strip(t) == rstrip(lstrip(t))

DigitValue ==
    ("0" :> 0) @@ ("1" :> 1) @@ ("2" :> 2) @@ ("3" :> 3) @@ ("4" :> 4) @@
    ("5" :> 5) @@ ("6" :> 6) @@ ("7" :> 7) @@ ("8" :> 8) @@ ("9" :> 9)

IsDigits(t) == t # <<>> /\ \A i \in 1..Len(t) : t[i] \in DOMAIN DigitValue

RECURSIVE DigitsValue(_)
DigitsValue(t) ==
    IF t = <<>> THEN 0
    ELSE 10 * DigitsValue(SubSeq(t, 1, Len(t) - 1)) + DigitValue[t[Len(t)]]

\* int(text): <<n>> when text is an optional sign followed by digits, None
\* when int() raises ValueError.
int(t) ==
    IF t # <<>> /\ Head(t) \in {"-", "+"}
    THEN IF IsDigits(Tail(t))
         THEN Some(IF Head(t) = "-" THEN 0 - DigitsValue(Tail(t)) ELSE DigitsValue(Tail(t)))
         ELSE None
    ELSE IF IsDigits(t) THEN Some(DigitsValue(t)) ELSE None

\* FileSystemPackageResource._filepath_and_format read on every access
\* instead of being kept in the resource.
_filepath_and_format_uncached(pkg) == _get_file(PackagePath(pkg), "package")

\* FileSystemPackageResource._filepath_and_format (a cached_property): the
\* package file found under the package's path when first asked for.
_filepath_and_format(pkg) ==
    cached_property(cachedFilepath, pkg.id, _get_file(PackagePath(pkg), "package"))

\* FileSystemPackageResource.filepath and .file_format
filepath(pkg) == _filepath_and_format(pkg)[1]
file_format(pkg) == _filepath_and_format(pkg)[2]

\* FileSystemPackageResource._uri, the resource's uri
\* The package's directory taken for its uri.
uri_package_directory(pkg) == PackagePath(pkg)

uri(pkg) == filepath(pkg)[1]

\* The .metadata branch of _load_old_formats, for the directory path_.
LoadMetadataDir(path_) ==
    LET changelog == join(path_, "changelog.txt")
        release_time == join(path_, "release_time.txt")
        withChangelog ==
            IF isfile(changelog)
            THEN DictSet(EmptyDoc, "changelog",
                         load_from_file_with(changelog, "txt", ConfiguredBudget))
            ELSE EmptyDoc
        parsed == IF isfile(release_time)
                  THEN int(strip(load_from_file(release_time, "txt").v))
                  ELSE None
    IN IF parsed # None
       THEN DictSet(withChangelog, "timestamp", parsed[1])
       ELSE withChangelog

\* _load_old_formats(): None, or <<data>>.  The files are looked for under
\* self.uri.
_load_old_formats(pkg) ==
    LET path == uri(pkg)
        release == join(path, "release.yaml")
        path_ == join(path, ".metadata")
    IN IF isfile(release)
       THEN Some(load_from_file_with(release, "yaml", ConfiguredBudget))
       ELSE IF isdir(path_)
       THEN Some(LoadMetadataDir(path_))
       ELSE None

\* FileSystemPackageResource._load(): [out, data], out being "ok" or the
\* exception raised.
_load(pkg) ==
    IF filepath(pkg) = None
    THEN [out |-> "PackageMetadataError", data |-> EmptyDoc]
    ELSE IF ~isfile(filepath(pkg)[1])
    THEN [out |-> "IOError", data |-> EmptyDoc]
    ELSE LET data == load_from_file(filepath(pkg)[1], file_format(pkg)[1])
             data_ == _load_old_formats(pkg)
         IN IF "timestamp" \notin DOMAIN data /\ data_ # None /\ data_[1] # EmptyDoc
            THEN [out |-> "ok", data |-> DictUpdate(data, data_[1])]
            ELSE [out |-> "ok", data |-> data]

RecordData(pkg, out) ==
    /\ firstData' = SetOnce(firstData, pkg.id, out)
    /\ lastData' = (pkg.id :> [at |-> clock, out |-> out]) @@ lastData

\* A read of package.data: the document kept in the resource once _load has
\* returned one, else the outcome of _load now.
package_data(pkg) ==
    /\ pkg \in SplitPackages
    /\ IF pkg.id \in DOMAIN cachedData
       THEN /\ RecordData(pkg, "ok")
            /\ err' = ""
            /\ UNCHANGED <<cachedFilepath, cachedData>>
       ELSE LET loaded == _load(pkg)
            IN /\ cachedFilepath' = SetOnce(cachedFilepath, pkg.id, _filepath_and_format(pkg))
               /\ cachedData' = IF loaded.out = "ok"
                                 THEN (pkg.id :> loaded.data) @@ cachedData
                                 ELSE cachedData
               /\ RecordData(pkg, loaded.out)
               /\ err' = IF loaded.out = "ok" THEN "" ELSE loaded.out
    /\ UNCHANGED <<fsVars, regVars, threadVars, listdirCache, rootCacheVars,
                   lruPackages, lruVariants, cachedHandle, rootObsVars, lastIter,
                   firstRepoIter, lastRepoIter, lastHandle, lastVariants, clVars, linkVars>>

\* A state_handle that needs the package file, raising as _load does.
StateHandleValue_requiring_file(pkg) ==
    IF filepath(pkg) = None
    THEN [out |-> "PackageMetadataError", res |-> None]
    ELSE IF ~exists(filepath(pkg)[1])
    THEN [out |-> "OSError", res |-> None]
    ELSE [out |-> "ok", res |-> Some(getmtime(filepath(pkg)[1]))]

\* FileSystemPackageResource.state_handle (a cached_property): the package
\* file's modification time, None when the package has no package file.
\* [out, res]: getmtime raises OSError when the file is gone.
StateHandleValue(pkg) ==
    IF filepath(pkg) = None
    THEN [out |-> "ok", res |-> None]
    ELSE IF ~exists(filepath(pkg)[1])
    THEN [out |-> "OSError", res |-> None]
    ELSE [out |-> "ok", res |-> Some(getmtime(filepath(pkg)[1]))]

state_handle(pkg) ==
    /\ pkg \in SplitPackages
    /\ IF pkg.id \in DOMAIN cachedHandle
       THEN /\ lastHandle' = (pkg.id :> [at |-> clock, res |-> cachedHandle[pkg.id]])
                                 @@ lastHandle
            /\ err' = ""
            /\ UNCHANGED <<cachedFilepath, cachedHandle>>
       ELSE LET got == StateHandleValue(pkg)
            IN /\ cachedFilepath' = SetOnce(cachedFilepath, pkg.id, _filepath_and_format(pkg))
               /\ IF got.out = "ok"
                  THEN /\ cachedHandle' = (pkg.id :> got.res) @@ cachedHandle
                       /\ lastHandle' = (pkg.id :> [at |-> clock, res |-> got.res])
                                            @@ lastHandle
                       /\ err' = ""
                  ELSE /\ err' = got.out
                       /\ UNCHANGED <<cachedHandle, lastHandle>>
    /\ UNCHANGED <<fsVars, regVars, threadVars, listdirCache, rootCacheVars,
                   lruPackages, lruVariants, cachedData, rootObsVars, lastIter,
                   firstRepoIter, lastRepoIter, firstData, lastData, lastVariants,
                   clVars, linkVars>>

-----------------------------------------------------------------------------------------------------------------------------------------------------
(* Specification SpecPackages: one split-layout family directory, foo/,    *)
(* whose version directories and top-level package file come and go.       *)

PackageDoc == ("name" :> Str(<<"f">>) @@ "timestamp" :> 7)

FamilyTree == WithEntry(RootTree, <<"foo">>, Dir(-1, 0), 0)

VersionTree == WithEntry(FamilyTree, <<"foo", "1.0">>, Dir(-2, 0), 0)

InitPackages ==
    /\ fs \in {FamilyTree, VersionTree}
    /\ clock = 0
    /\ InitCaches
    /\ NoChangelogCall

MkVersionDir(v) == MkDir(<<"foo", v>>) /\ TreeUnchanged

RemoveVersionDir(v) == Remove(<<"foo", v>>) /\ TreeUnchanged

WritePackageFile(dir, e) ==
    WriteFile(join(dir, FileName("package", e)), PackageDoc) /\ TreeUnchanged

RemovePackageFile(dir, e) ==
    Remove(join(dir, FileName("package", e))) /\ TreeUnchanged

NextPackages ==
    \/ \E v \in VersionNames \cup HiddenNames : MkVersionDir(v)
    \/ \E v \in VersionNames : RemoveVersionDir(v)
    \/ \E e \in Range(FormatExts) : WritePackageFile(<<"foo">>, e)
    \/ \E e \in Range(FormatExts) : RemovePackageFile(<<"foo">>, e)
    \/ get_package_family("foo")
    \/ \E fam \in SplitFamilies : family_iter_packages(fam)
    \/ \E fam \in SplitFamilies : iter_packages(fam)

SpecPackages == InitPackages /\ [][NextPackages]_vars

-----------------------------------------------------------------------------
(* Specification SpecData: the package of one version directory, foo/1.0,  *)
(* whose package files come and go while its data and state handle are     *)
(* read.                                                                   *)

InitData ==
    /\ fs \in {VersionTree,
                WithEntry(VersionTree, <<"foo", "1.0", "package.yaml">>,
                          File(-3, 0, PackageDoc), 0)}
    /\ clock = 0
    /\ InitCaches
    /\ NoChangelogCall

NextData ==
    \/ \E e \in Range(FormatExts) : WritePackageFile(<<"foo", "1.0">>, e)
    \/ \E e \in Range(FormatExts) : RemovePackageFile(<<"foo", "1.0">>, e)
    \/ get_package_family("foo")
    \/ \E fam \in SplitFamilies : family_iter_packages(fam)
    \/ \E pkg \in SplitPackages : package_data(pkg)
    \/ \E pkg \in SplitPackages : state_handle(pkg)

SpecData == InitData /\ [][NextData]_vars

-----------------------------------------------------------------------------
(* Combined-layout resources: one file per family, holding the versions    *)
(* and the overrides of its packages.                                      *)

\* get_resource(FileSystemCombinedPackageResource.key, location=, name=, ext=)
CombinedPackageKey(name, ext) ==
    [kind |-> "filesystem.package.combined",
     vars |-> ("location" :> Location @@ "name" :> name @@ "ext" :> ext)]

\* get_resource(FileSystemCombinedPackageResource.key, location=, name=, ext=,
\* version=)
CombinedVersionedPackageKey(name, ext, version) ==
    [kind |-> "filesystem.package.combined",
     vars |-> ("location" :> Location @@ "name" :> name @@ "ext" :> ext
               @@ "version" :> version)]

\* get_resource(variant_key, location=, name=, ext=, version=, index=)
CombinedVariantKey(name, ext, version, index) ==
    [kind |-> "filesystem.variant.combined",
     vars |-> ("location" :> Location @@ "name" :> name @@ "ext" :> ext
               @@ "version" :> version @@ "index" :> index)]

CombinedFamilies == {r \in pool : r.key.kind = "filesystem.family.combined"}
CombinedPackages == {r \in pool : r.key.kind = "filesystem.package.combined"}

\* Versions are sequences of numeric tokens; Version(ver_str) parses a
\* version string (None and "" give the empty version) and str(version)
\* writes it back.
VersionTokens ==
    ("1.0" :> <<1, 0>> @@ "1.1" :> <<1, 1>> @@ "1.2" :> <<1, 2>>)

Version(ver_str) == IF ver_str = None THEN <<>> ELSE VersionTokens[ver_str[1]]

str_version(version) ==
    CHOOSE ver_str \in DOMAIN VersionTokens : VersionTokens[ver_str] = version

\* version a < version b: token by token, a proper prefix being the smaller
RECURSIVE VersionLess(_, _)
VersionLess(a, b) ==
    IF b = <<>> THEN FALSE
    ELSE IF a = <<>> THEN TRUE
    ELSE IF Head(a) # Head(b) THEN Head(a) < Head(b)
    ELSE VersionLess(Tail(a), Tail(b))

\* The version ranges "V" (V and every version that extends it) and "V+"
\* (V and every later version).
RangeOf(v) == [kind |-> "of", v |-> v]
RangeFrom(v) == [kind |-> "from", v |-> v]

\* version in range_
RangeContains(range_, version) ==
    IF range_.kind = "of"
    THEN IsPrefix(range_.v, version)
    ELSE ~VersionLess(version, range_.v)

\* FileSystemCombinedPackageFamilyResource.filepath
CombinedFamilyFilepath(fam) ==
    join(Root, FileName(fam.key.vars["name"], fam.key.vars["ext"]))

\* FileSystemCombinedPackageFamilyResource._load(): [out, data]
combined_family_load(fam) ==
    IF ~isfile(CombinedFamilyFilepath(fam))
    THEN [out |-> "IOError", data |-> EmptyDoc]
    ELSE [out |-> "ok",
          data |-> load_from_file(CombinedFamilyFilepath(fam), fam.key.vars["ext"])]

\* family.data: the document kept in the resource once loaded, else _load()
FamilyData(fam) ==
    IF fam.id \in DOMAIN cachedData
    THEN [out |-> "ok", data |-> cachedData[fam.id]]
    ELSE combined_family_load(fam)

\* family.versions, family.version_overrides: the field of the document,
\* None when it has none.  The overrides are the mapping's items in its
\* iteration order, each a <<range, document>> pair.
Field(data, k) == IF k \in DOMAIN data THEN Some(data[k]) ELSE None

\* The versions walked from the last declared to the first.
CombinedPackageKeys_reversed(fam, data) ==
    LET name == fam.key.vars["name"]
        ext == fam.key.vars["ext"]
        versions == Field(data, "versions")
    IN IF versions = None \/ versions[1] = <<>>
       THEN <<CombinedPackageKey(name, ext)>>
       ELSE [i \in 1..Len(versions[1]) |->
                CombinedVersionedPackageKey(
                    name, ext,
                    Some(str_version(Version(Some(versions[1][Len(versions[1]) + 1 - i])))))]

\* The keys FileSystemCombinedPackageFamilyResource.iter_packages resolves:
\* the unversioned package when no versions are declared, else one package
\* per declared version, in declared order.
CombinedPackageKeys(fam, data) ==
    LET name == fam.key.vars["name"]
        ext == fam.key.vars["ext"]
        versions == Field(data, "versions")
    IN IF versions = None \/ versions[1] = <<>>
       THEN <<CombinedPackageKey(name, ext)>>
       ELSE [i \in 1..Len(versions[1]) |->
                CombinedVersionedPackageKey(
                    name, ext, Some(str_version(Version(Some(versions[1][i])))))]

\* family.iter_packages() of a combined family, run to its end
combined_family_iter_packages(fam) ==
    /\ fam \in CombinedFamilies
    /\ LET loaded == FamilyData(fam)
       IN IF loaded.out # "ok"
          THEN /\ err' = loaded.out
               /\ UNCHANGED <<regVars, cachedData, lastIter>>
          ELSE LET got == ResolveAll(pool, nextId, CombinedPackageKeys(fam, loaded.data))
               IN /\ pool' = got.pool
                  /\ nextId' = got.nextId
                  /\ returned' = returned \cup Range(got.res)
                  /\ cachedData' = SetOnce(cachedData, fam.id, loaded.data)
                  /\ lastIter' = (fam.id :> [at |-> clock, res |-> got.res]) @@ lastIter
                  /\ err' = ""
    /\ UNCHANGED <<fsVars, threadVars, listdirCache, rootCacheVars, lruPackages,
                   lruVariants, cachedFilepath, cachedHandle, rootObsVars,
                   firstRepoIter, lastRepoIter, firstData, lastData, lastHandle,
                   lastVariants, clVars, linkVars>>

\* The loop over the overrides: each override whose range contains the
\* version is merged into data, in the mapping's iteration order.
RECURSIVE ApplyOverrides(_, _, _)
ApplyOverrides(data, overrides, version) ==
    IF overrides = <<>> THEN data
    ELSE ApplyOverrides(
             IF RangeContains(Head(overrides)[1], version)
             THEN DictUpdate(data, Head(overrides)[2])
             ELSE data,
             Tail(overrides), version)

\* The loop without its test of the range: every override is merged.
RECURSIVE ApplyOverrides_any_range(_, _, _)
ApplyOverrides_any_range(data, overrides, version) ==
    IF overrides = <<>> THEN data
    ELSE ApplyOverrides_any_range(DictUpdate(data, Head(overrides)[2]),
                                  Tail(overrides), version)

\* The loop leaving at the first override whose range contains the version.
RECURSIVE ApplyOverrides_first_match(_, _, _)
ApplyOverrides_first_match(data, overrides, version) ==
    IF overrides = <<>> THEN data
    ELSE IF RangeContains(Head(overrides)[1], version)
    THEN DictUpdate(data, Head(overrides)[2])
    ELSE ApplyOverrides_first_match(data, Tail(overrides), version)

\* _load() with a break after the first override merged.
combined_load_first_match(pkg, parent_data) ==
    IF "versions" \in DOMAIN parent_data
    THEN LET version_str == Get(pkg.key, "version")
             data == DictSet(DictDel(parent_data, "versions"), "version", version_str)
             overrides == Field(parent_data, "version_overrides")
         IN IF overrides # None /\ overrides[1] # <<>>
            THEN DictDel(ApplyOverrides_first_match(data, overrides[1],
                                                    Version(version_str)),
                         "version_overrides")
            ELSE data
    ELSE parent_data

\* _load() merging every override, whatever its range.
combined_load_any_range(pkg, parent_data) ==
    IF "versions" \in DOMAIN parent_data
    THEN LET version_str == Get(pkg.key, "version")
             data == DictSet(DictDel(parent_data, "versions"), "version", version_str)
             overrides == Field(parent_data, "version_overrides")
         IN IF overrides # None /\ overrides[1] # <<>>
            THEN DictDel(ApplyOverrides_any_range(data, overrides[1],
                                                  Version(version_str)),
                         "version_overrides")
            ELSE data
    ELSE parent_data

\* FileSystemCombinedPackageResource._load(), given the parent's document
combined_load(pkg, parent_data) ==
    IF "versions" \in DOMAIN parent_data
    THEN LET version_str == Get(pkg.key, "version")
             data == DictSet(DictDel(parent_data, "versions"), "version", version_str)
             overrides == Field(parent_data, "version_overrides")
         IN IF overrides # None /\ overrides[1] # <<>>
            THEN DictDel(ApplyOverrides(data, overrides[1], Version(version_str)),
                         "version_overrides")
            ELSE data
    ELSE parent_data

\* The key a resource resolves its parent with.
\* FileSystemPackageResource.parent: the split family of its name.
\* FileSystemVariantResource.parent: the package of its name and version=
\* self.get("version").  FileSystemCombinedPackageResource.parent: the
\* combined family of its name and ext.  FileSystemCombinedVariantResource.
\* parent: the combined package of its name, ext and version=
\* self.get("version").
ParentKey(r) ==
    IF r.key.kind = "filesystem.package"
    THEN FamilyKey(r.key.vars["name"])
    ELSE IF r.key.kind = "filesystem.variant"
    THEN VersionedPackageKey(r.key.vars["name"], Get(r.key, "version"))
    ELSE IF r.key.kind = "filesystem.package.combined"
    THEN CombinedFamilyKey(r.key.vars["name"], Get(r.key, "ext"))
    ELSE CombinedVersionedPackageKey(r.key.vars["name"], Get(r.key, "ext"),
                                     Get(r.key, "version"))

\* resource.parent, a cached_property: the resource kept once resolved, else
\* the one get_resource gives now.  [pool, nextId, res]
parent(r) ==
    IF r.id \in DOMAIN cachedParent
    THEN [pool |-> pool, nextId |-> nextId, res |-> cachedParent[r.id]]
    ELSE get_resource(pool, nextId, ParentKey(r))

\* data = self.parent.data, without the copy: the changes _load makes are
\* made to the family's own document.
ParentDataAfterLoad_uncopied(pkg, parent_data) == combined_load(pkg, parent_data)

\* data = self.parent.data.copy(): _load deletes, sets and updates top-level
\* keys of the copy, so the family's document is the one it was.
ParentDataAfterLoad(pkg, parent_data) == parent_data

\* package.data of a combined package: the document kept in the resource,
\* else _load() with the parent family resolved through the registry and
\* its document read.  [out, data, pool, nextId, cache, parents]
CombinedData(pkg) ==
    IF pkg.id \in DOMAIN cachedData
    THEN [out |-> "ok", data |-> cachedData[pkg.id], pool |-> pool,
          nextId |-> nextId, cache |-> cachedData, parents |-> cachedParent]
    ELSE LET got == parent(pkg)
             family == FamilyData(got.res)
             parents == SetOnce(cachedParent, pkg.id, got.res)
         IN IF family.out # "ok"
            THEN [out |-> family.out, data |-> EmptyDoc, pool |-> got.pool,
                  nextId |-> got.nextId, cache |-> cachedData, parents |-> parents]
            ELSE [out |-> "ok", data |-> combined_load(pkg, family.data),
                  pool |-> got.pool, nextId |-> got.nextId,
                  cache |-> (pkg.id :> combined_load(pkg, family.data))
                                @@ (got.res.id :> ParentDataAfterLoad(pkg, family.data))
                                @@ cachedData,
                  parents |-> parents]

\* A read of package.data of a combined package
combined_package_data(pkg) ==
    /\ pkg \in CombinedPackages
    /\ LET read == CombinedData(pkg)
       IN /\ pool' = read.pool
          /\ nextId' = read.nextId
          /\ cachedData' = read.cache
          /\ cachedParent' = read.parents
          /\ RecordData(pkg, read.out)
          /\ err' = IF read.out = "ok" THEN "" ELSE read.out
    /\ UNCHANGED <<fsVars, returned, threadVars, listdirCache, rootCacheVars,
                   lruPackages, lruVariants, cachedFilepath, cachedHandle,
                   rootObsVars, lastIter, firstRepoIter, lastRepoIter, lastHandle,
                   lastVariants, clVars, lastReleaseTime, firstHandle>>

\* The indexes iter_variants goes through, counted from one.
VariantIndexes_from_one(num_variants) ==
    IF num_variants = 0 THEN <<None>> ELSE [i \in 1..num_variants |-> Some(i)]

\* indexes: [None] when the document has no variants, else
\* range(num_variants)
VariantIndexes(num_variants) ==
    IF num_variants = 0 THEN <<None>> ELSE [i \in 1..num_variants |-> Some(i - 1)]

\* The keys FileSystemCombinedPackageResource.iter_variants resolves
CombinedVariantKeys(pkg, data) ==
    LET num_variants == IF "variants" \in DOMAIN data THEN Len(data["variants"]) ELSE 0
        indexes == VariantIndexes(num_variants)
    IN [i \in 1..Len(indexes) |->
           CombinedVariantKey(pkg.key.vars["name"], Get(pkg.key, "ext"),
                              Get(pkg.key, "version"), indexes[i])]

\* package.iter_variants() of a combined package, run to its end
combined_iter_variants(pkg) ==
    /\ pkg \in CombinedPackages
    /\ LET read == CombinedData(pkg)
       IN IF read.out # "ok"
          THEN /\ pool' = read.pool
               /\ nextId' = read.nextId
               /\ cachedParent' = read.parents
               /\ err' = read.out
               /\ UNCHANGED <<returned, cachedData, lastVariants>>
          ELSE LET got == ResolveAll(read.pool, read.nextId,
                                     CombinedVariantKeys(pkg, read.data))
               IN /\ pool' = got.pool
                  /\ nextId' = got.nextId
                  /\ returned' = returned \cup Range(got.res)
                  /\ cachedData' = read.cache
                  /\ cachedParent' = read.parents
                  /\ lastVariants' = (pkg.id :> [at |-> clock, res |-> got.res])
                                         @@ lastVariants
                  /\ err' = ""
    /\ UNCHANGED <<fsVars, threadVars, listdirCache, rootCacheVars, lruPackages,
                   lruVariants, cachedFilepath, cachedHandle, rootObsVars, lastIter,
                   firstRepoIter, lastRepoIter, firstData, lastData, lastHandle,
                   clVars, lastReleaseTime, firstHandle>>

-----------------------------------------------------------------------------
(* Parents, and the variants of a split-layout package.                    *)

Children ==
    {r \in pool : r.key.kind \in {"filesystem.package", "filesystem.variant",
                                   "filesystem.package.combined",
                                   "filesystem.variant.combined"}}

\* repository.get_parent_package_family(package_resource) and
\* repository.get_parent_package(variant_resource): resource.parent
get_parent(r) ==
    /\ r \in Children
    /\ LET got == parent(r)
       IN /\ pool' = got.pool
          /\ nextId' = got.nextId
          /\ returned' = returned \cup {got.res}
          /\ cachedParent' = SetOnce(cachedParent, r.id, got.res)
          /\ err' = ""
    /\ UNCHANGED <<fsVars, threadVars, listdirCache, rootCacheVars, pkgCacheVars,
                   rootObsVars, pkgObsVars, clVars, lastReleaseTime, firstHandle>>

\* get_resource(variant_key, location=, name=, version=, index=)
VariantKey(name, version, index) ==
    [kind |-> "filesystem.variant",
     vars |-> ("location" :> Location @@ "name" :> name @@ "version" :> version
               @@ "index" :> index)]

\* The keys iter_variants of a split-layout package resolves
SplitVariantKeys(pkg, data) ==
    LET num_variants == IF "variants" \in DOMAIN data THEN Len(data["variants"]) ELSE 0
        indexes == VariantIndexes(num_variants)
    IN [i \in 1..Len(indexes) |->
           VariantKey(pkg.key.vars["name"], Get(pkg.key, "version"), indexes[i])]

\* package.iter_variants() of a split-layout package, run to its end: the
\* document is read (and loaded when it was not), then one variant is
\* resolved per index.
split_iter_variants(pkg) ==
    /\ pkg \in SplitPackages
    /\ LET loaded == IF pkg.id \in DOMAIN cachedData
                     THEN [out |-> "ok", data |-> cachedData[pkg.id]]
                     ELSE _load(pkg)
       IN /\ cachedFilepath' = SetOnce(cachedFilepath, pkg.id, _filepath_and_format(pkg))
          /\ IF loaded.out # "ok"
             THEN /\ err' = loaded.out
                  /\ UNCHANGED <<regVars, cachedData, lastVariants>>
             ELSE LET got == ResolveAll(pool, nextId, SplitVariantKeys(pkg, loaded.data))
                  IN /\ pool' = got.pool
                     /\ nextId' = got.nextId
                     /\ returned' = returned \cup Range(got.res)
                     /\ cachedData' = SetOnce(cachedData, pkg.id, loaded.data)
                     /\ lastVariants' = (pkg.id :> [at |-> clock, res |-> got.res])
                                            @@ lastVariants
                     /\ err' = ""
    /\ UNCHANGED <<fsVars, threadVars, listdirCache, rootCacheVars, lruPackages,
                   lruVariants, cachedHandle, rootObsVars, lastIter, firstRepoIter,
                   lastRepoIter, firstData, lastData, lastHandle, clVars, linkVars>>

-----------------------------------------------------------------------------
(* Specification SpecParents: a split family foo/, with its package file   *)
(* in the family directory or in the version directory 1.0, and a combined *)
(* family bar.yaml, with or without declared versions; packages and        *)
(* variants are iterated and their parents resolved.                       *)

SplitParentTrees ==
    {WithEntry(FamilyTree, <<"foo", "package.py">>, File(-3, 0, PackageDoc), 0),
     WithEntry(VersionTree, <<"foo", "1.0", "package.py">>, File(-3, 0, PackageDoc), 0)}

CombinedParentDocs ==
    {("name" :> Str(<<"b">>)),
     ("name" :> Str(<<"b">>) @@ "versions" :> <<"1.0">>)}

InitParents ==
    /\ \E tree \in SplitParentTrees, doc \in CombinedParentDocs :
          fs = WithEntry(tree, <<"bar.yaml">>, File(-4, 0, doc), 0)
    /\ clock = 0
    /\ InitCaches
    /\ NoChangelogCall

NextParents ==
    \/ \E n \in FamilyNames : get_package_family(n)
    \/ \E fam \in SplitFamilies : family_iter_packages(fam)
    \/ \E fam \in CombinedFamilies : combined_family_iter_packages(fam)
    \/ \E pkg \in SplitPackages : split_iter_variants(pkg)
    \/ \E pkg \in CombinedPackages : combined_iter_variants(pkg)
    \/ \E r \in Children : get_parent(r)

SpecParents == InitParents /\ [][NextParents]_vars

-----------------------------------------------------------------------------
(* Specification SpecCombined: one combined family file, bar.<ext>, whose  *)
(* document is drawn from the bounded documents below; its packages and    *)
(* their variants are iterated and their documents read.                   *)

Python25 == <<"python-2.5">>
Python26 == <<"python-2.6">>

ExampleVersions == <<"1.0", "1.1", "1.2">>

\* A declaration that is not in version order
UnorderedVersions == <<"1.1", "1.0">>

\* The overrides of the repository's docstring: '1.0' and '1.1+'
ExampleOverrides ==
    <<<<RangeOf(<<1, 0>>), ("requires" :> Python25)>>,
      <<RangeFrom(<<1, 1>>), ("requires" :> Python26)>> >>

ManyVariants == [i \in 1..MaxVariants |-> <<"v">>]

OverrideRanges == {RangeOf(<<1, 0>>), RangeFrom(<<1, 1>>), RangeFrom(<<1, 0>>)}

OverrideItems ==
    {<<r, ("requires" :> Python25)>> : r \in OverrideRanges}
    \cup {<<r, ("requires" :> Python26)>> : r \in OverrideRanges}
    \cup {<<RangeOf(<<1, 0>>), ("variants" :> ManyVariants)>>}

\* The mappings of at most MaxOverrides items, in every iteration order (a
\* mapping has each range once).
OverrideMappings ==
    {m \in SeqsUpTo(OverrideItems, MaxOverrides) :
        \A i, j \in 1..Len(m) : i # j => m[i][1] # m[j][1]}

OptionalField(k, value) == IF value = None THEN EmptyDoc ELSE (k :> value[1])

CombinedFamilyDoc(versions, overrides, requires, variants) ==
    ("name" :> Str(<<"b">>))
    @@ OptionalField("versions", versions)
    @@ OptionalField("version_overrides", overrides)
    @@ OptionalField("requires", requires)
    @@ OptionalField("variants", variants)

CombinedTree(ext, doc) ==
    WithEntry(RootTree, join(Root, FileName("bar", ext)), File(-2, 0, doc), 0)

InitCombined ==
    /\ \E versions \in {None, Some(<<>>), Some(ExampleVersions), Some(UnorderedVersions)},
          overrides \in {None} \cup {Some(m) : m \in OverrideMappings},
          variants \in {None, Some(<<>>), Some(<< <<"x">> >>)} :
            fs = CombinedTree("yaml", CombinedFamilyDoc(versions, overrides,
                                                        Some(<<"python">>), variants))
    /\ clock = 0
    /\ InitCaches
    /\ NoChangelogCall

NextCombined ==
    \/ get_package_family("bar")
    \/ \E fam \in CombinedFamilies : combined_family_iter_packages(fam)
    \/ \E pkg \in CombinedPackages : combined_package_data(pkg)
    \/ \E pkg \in CombinedPackages : combined_iter_variants(pkg)

SpecCombined == InitCombined /\ [][NextCombined]_vars

-----------------------------------------------------------------------------
(* The last release time of a family.                                      *)

\* The path get_last_release_time reads: the family directory of a split
\* family, the family file of a combined family.
ReleaseTimePath(fam) ==
    IF fam.key.kind = "filesystem.family"
    THEN join(Root, fam.key.vars["name"])
    ELSE CombinedFamilyFilepath(fam)

\* os.path.getmtime(path) outside the try: a missing path raises OSError.
ReleaseTimeOf_untried(path) ==
    IF exists(path)
    THEN [out |-> "ok", res |-> getmtime(path)]
    ELSE [out |-> "OSError", res |-> 0]

\* try: return os.path.getmtime(path); except OSError: return 0
ReleaseTimeOf(path) ==
    IF exists(path)
    THEN [out |-> "ok", res |-> getmtime(path)]
    ELSE [out |-> "ok", res |-> 0]

\* repository.get_last_release_time(package_family_resource)
get_last_release_time(fam) ==
    /\ fam \in SplitFamilies \cup CombinedFamilies
    /\ LET got == ReleaseTimeOf(ReleaseTimePath(fam))
       IN /\ lastReleaseTime' =
                 (fam.id :> [at |-> clock, out |-> got.out, res |-> got.res])
                     @@ lastReleaseTime
          /\ err' = IF got.out = "ok" THEN "" ELSE got.out
    /\ UNCHANGED <<fsVars, regVars, threadVars, listdirCache, rootCacheVars,
                   pkgCacheVars, rootObsVars, pkgObsVars, clVars, cachedParent,
                   firstHandle>>

-----------------------------------------------------------------------------
(* Specification SpecReleaseTime: the split family foo/ and the combined   *)
(* family bar.yaml are resolved and their last release time is read while  *)
(* the directory and the file are changed and removed.                     *)

NextReleaseTime ==
    \/ \E n \in FamilyNames : get_package_family(n)
    \/ \E fam \in SplitFamilies \cup CombinedFamilies : get_last_release_time(fam)
    \/ \E v \in VersionNames : MkVersionDir(v)
    \/ WriteFamilyFile("bar", "yaml")
    \/ \E n \in {"foo", "bar.yaml"} : RemoveRootEntry(n)

SpecReleaseTime == Init /\ [][NextReleaseTime]_vars

-----------------------------------------------------------------------------
(* The state handle of a combined package and of a variant.                *)

CombinedVariants == {r \in pool : r.key.kind = "filesystem.variant.combined"}

\* os.path.getmtime(self.parent.filepath): [out, res]
CombinedStateHandleValue(family) ==
    IF exists(CombinedFamilyFilepath(family))
    THEN [out |-> "ok", res |-> Some(getmtime(CombinedFamilyFilepath(family)))]
    ELSE [out |-> "OSError", res |-> None]

\* A state_handle that is computed at every read.
PackageStateHandle_unkept(pkg, family) == CombinedStateHandleValue(family)

\* FileSystemCombinedPackageResource.state_handle, a cached_property: the
\* value kept in the package once computed, else the modification time of
\* the parent family's file now.
PackageStateHandle(pkg, family) ==
    IF pkg.id \in DOMAIN cachedHandle
    THEN [out |-> "ok", res |-> cachedHandle[pkg.id]]
    ELSE CombinedStateHandleValue(family)

\* The read of the state handle of package pkg, made for resource r (pkg
\* itself, or a variant of it), in the registry (p, n) with the parents
\* parents.
ReadStateHandle(r, pkg, p, n, parents) ==
    LET got == IF pkg.id \in DOMAIN parents
               THEN [pool |-> p, nextId |-> n, res |-> parents[pkg.id]]
               ELSE get_resource(p, n, ParentKey(pkg))
        handle == PackageStateHandle(pkg, got.res)
    IN /\ pool' = got.pool
       /\ nextId' = got.nextId
       /\ cachedParent' = SetOnce(parents, pkg.id, got.res)
       /\ IF handle.out = "ok"
          THEN /\ cachedHandle' = SetOnce(cachedHandle, pkg.id, handle.res)
               /\ lastHandle' = (r.id :> [at |-> clock, res |-> handle.res]) @@ lastHandle
               /\ firstHandle' = SetOnce(firstHandle, pkg.id,
                                         [at |-> clock, res |-> handle.res])
               /\ err' = ""
          ELSE /\ err' = handle.out
               /\ UNCHANGED <<cachedHandle, lastHandle, firstHandle>>

\* A read of package.state_handle of a combined package
combined_state_handle(pkg) ==
    /\ pkg \in CombinedPackages
    /\ ReadStateHandle(pkg, pkg, pool, nextId, cachedParent)
    /\ UNCHANGED <<fsVars, returned, threadVars, listdirCache, rootCacheVars,
                   lruPackages, lruVariants, cachedFilepath, cachedData, rootObsVars,
                   lastIter, firstRepoIter, lastRepoIter, firstData, lastData,
                   lastVariants, clVars, lastReleaseTime>>

\* repository.get_variant_state_handle(variant_resource): the state handle
\* of the variant's parent package
get_variant_state_handle(variant) ==
    /\ variant \in CombinedVariants
    /\ LET got == parent(variant)
       IN ReadStateHandle(variant, got.res, got.pool, got.nextId,
                          SetOnce(cachedParent, variant.id, got.res))
    /\ UNCHANGED <<fsVars, returned, threadVars, listdirCache, rootCacheVars,
                   lruPackages, lruVariants, cachedFilepath, cachedData, rootObsVars,
                   lastIter, firstRepoIter, lastRepoIter, firstData, lastData,
                   lastVariants, clVars, lastReleaseTime>>

-----------------------------------------------------------------------------
(* Specification SpecHandles: the combined family bar.yaml, declaring two  *)
(* versions, one of them with a variant; the state handles of its packages *)
(* and of the variant are read while the family file is written.           *)

HandlesVersions == <<"1.0", "1.1">>

\* Version 1.0 alone has a variant.
HandlesOverrides == << <<RangeOf(<<1, 0>>), ("variants" :> << <<"x">> >>)>> >>

InitHandles ==
    /\ fs = CombinedTree("yaml", CombinedFamilyDoc(Some(HandlesVersions),
                                                   Some(HandlesOverrides), None, None))
    /\ clock = 0
    /\ InitCaches
    /\ NoChangelogCall

\* The writes made to the family file
MaxWrites == 1

\* The family file is written again, with the document it holds.
RewriteFamilyFile ==
    /\ clock < MaxWrites
    /\ isfile(<<"bar.yaml">>)
    /\ WriteFile(<<"bar.yaml">>, fs[<<"bar.yaml">>].data)
    /\ TreeUnchanged

NextHandles ==
    \/ get_package_family("bar")
    \/ \E fam \in CombinedFamilies : combined_family_iter_packages(fam)
    \/ \E pkg \in CombinedPackages : combined_iter_variants(pkg)
    \/ \E pkg \in CombinedPackages : combined_state_handle(pkg)
    \/ \E variant \in CombinedVariants : get_variant_state_handle(variant)
    \/ RewriteFamilyFile

SpecHandles == InitHandles /\ [][NextHandles]_vars

-----------------------------------------------------------------------------
(* Specification SpecLegacy: the package foo/1.0 of an old release, whose  *)
(* package file may lack a timestamp and whose directory may hold a        *)
(* release.yaml or a .metadata directory; its data is read.                *)

TextOf(chars) == ("text" :> chars)

Example1400000000 == <<"1", "4", "0", "0", "0", "0", "0", "0", "0", "0">>
ExampleNotANumber ==
    <<"n", "o", "t", "-", "a", "-", "n", "u", "m", "b", "e", "r">>

ReleaseTimeTexts ==
    {Example1400000000, ExampleNotANumber, <<" ", "4", "2", "\n">>, <<"-", "7">>,
     <<>>, <<"4", " ", "2">>}

LongChangelog == [i \in 1..(MaxBudget + 4) |-> "c"]

LegacyPackageDocs ==
    {PackageDoc,
     ("name" :> Str(<<"f">>)),
     ("name" :> Str(<<"f">>) @@ "changelog" :> Str(<<"n", "e", "w">>))}

ReleaseDocs ==
    {("timestamp" :> 3),
     ("timestamp" :> 3 @@ "changelog" :> List(<<LongChangelog, <<"x">> >>)),
     ("changelog" :> Str(<<"o", "l", "d">>))}

\* The .metadata directories: what changelog.txt and release_time.txt hold,
\* None for a file that is not there.
MetadataDirs ==
    [changelog : {None, Some(<<"o", "l", "d">>), Some(LongChangelog)},
     release_time : {None} \cup {Some(t) : t \in ReleaseTimeTexts}]

WithOptionalFile(tree, path, text, ino) ==
    IF text = None THEN tree ELSE WithEntry(tree, path, File(ino, 0, TextOf(text[1])), 0)

LegacyTree(ext, doc, release, meta) ==
    LET dir == <<"foo", "1.0">>
        t1 == WithEntry(VersionTree, join(dir, FileName("package", ext)),
                        File(-3, 0, doc), 0)
        t2 == IF release = None THEN t1
              ELSE WithEntry(t1, join(dir, "release.yaml"), File(-4, 0, release[1]), 0)
        t3 == IF meta = None THEN t2
              ELSE WithOptionalFile(
                       WithOptionalFile(
                           WithEntry(t2, join(dir, ".metadata"), Dir(-5, 0), 0),
                           join(join(dir, ".metadata"), "changelog.txt"),
                           meta[1].changelog, -6),
                       join(join(dir, ".metadata"), "release_time.txt"),
                       meta[1].release_time, -7)
    IN t3

InitLegacy ==
    /\ \E ext \in Range(FormatExts), doc \in LegacyPackageDocs,
          release \in {None} \cup {Some(d) : d \in ReleaseDocs},
          meta \in {None} \cup {Some(m) : m \in MetadataDirs} :
            fs = LegacyTree(ext, doc, release, meta)
    /\ clock = 0
    /\ InitCaches
    /\ NoChangelogCall

NextLegacy ==
    \/ get_package_family("foo")
    \/ \E fam \in SplitFamilies : family_iter_packages(fam)
    \/ \E pkg \in SplitPackages : package_data(pkg)

SpecLegacy == InitLegacy /\ [][NextLegacy]_vars

-----------------------------------------------------------------------------
(* Specification SpecChangelog: one call of _update_changelog, on every    *)
(* changelog and budget within the bounds.                                 *)

ChangelogTexts == SeqsUpTo({"a", "\n"}, MaxText)
ChangelogLines == SeqsUpTo(SeqsUpTo({"a"}, MaxLines), MaxLines)

\* The data _update_changelog is called with: for the yaml format a document
\* without a changelog or with one, a text or a list of lines, and for the
\* txt format a text.
YamlCalls(changelogs) ==
    {[maxlen |-> m, file_format |-> "yaml",
      data |-> ("timestamp" :> 3 @@ "changelog" :> c)] :
         m \in 0..MaxBudget, c \in changelogs}

YamlCallsWithoutChangelog ==
    {[maxlen |-> m, file_format |-> "yaml", data |-> ("timestamp" :> 3)] :
        m \in 0..MaxBudget}

TxtCalls ==
    {[maxlen |-> m, file_format |-> "txt", data |-> Str(t)] :
        m \in 0..MaxBudget, t \in ChangelogTexts}

InitChangelog ==
    /\ fs = RootTree
    /\ clock = 0
    /\ InitCaches
    /\ \/ \E c \in YamlCallsWithoutChangelog : clArgs = Some(c)
       \/ \E c \in YamlCalls({Str(t) : t \in ChangelogTexts}) : clArgs = Some(c)
       \/ \E c \in YamlCalls({List(l) : l \in ChangelogLines}) : clArgs = Some(c)
       \/ \E c \in TxtCalls : clArgs = Some(c)
    /\ clResult = None

CallUpdateChangelog ==
    /\ clResult = None
    /\ clResult' = Some(_update_changelog(clArgs[1].maxlen, clArgs[1].file_format,
                                          clArgs[1].data))
    /\ UNCHANGED <<fsVars, regVars, threadVars, listdirCache, rootCacheVars,
                   pkgCacheVars, err, rootObsVars, pkgObsVars, clArgs, linkVars>>

NextChangelog == CallUpdateChangelog

SpecChangelog == InitChangelog /\ [][NextChangelog]_vars

-----------------------------------------------------------------------------
(* Properties of the registry and of the family queries.                   *)

C8_NullNotCached ==
    \A n \in FamilyNames :
        (/\ firstFamily[n] = <<None>>
         /\ lastFamily[n].at = clock
         /\ FamilyProbe(n) # None)
            => (/\ lastFamily[n].res # None
                /\ lastFamily[n].res[1].key = FamilyProbe(n)[1])

\* C8 amended: a null result is memoised like any other: once
\* get_package_family(name) has returned null, every later call on the same
\* repository returns null, whatever is created on disk meanwhile.
C8_NullIsMemoised ==
    \A n \in FamilyNames :
        firstFamily[n] = <<None>> => lastFamily[n].res = None

\* The last get_package_family(name) was made on the present tree, where the
\* family exists, after an earlier call had returned null: it returned null.
C8_Witness ==
    \E n \in FamilyNames :
        /\ firstFamily[n] = <<None>>
        /\ lastFamily[n].at = clock
        /\ FamilyProbe(n) # None
        /\ lastFamily[n].res = None

\* The keys of the families a fresh listing of the root directory gives.
FreshFamilyKeys ==
    [i \in 1..Len(ScanFamilyDirs) |-> FamiliesKey(ScanFamilyDirs[i])]

KeysOf(resources) == [i \in 1..Len(resources) |-> resources[i].key]

\* C9 as stated: a call of iter_package_families made after the root
\* directory changed reflects the families now on disk.
C9_RederivedOnChange ==
    (firstFamilies # <<>> /\ lastFamilies.at = clock)
        => KeysOf(lastFamilies.res) = FreshFamilyKeys

\* C9 amended: the sequence is memoised for the life of the repository and is
\* never derived again: every iter_package_families returns the sequence of
\* the first call, also after families were added to or removed from the root.
C9_MemoisedForLife ==
    firstFamilies # <<>> => lastFamilies.res = firstFamilies[1]

\* The last iter_package_families was made on the present tree and returned
\* the first call's sequence, which is not the families now on disk.
C9_Witness ==
    /\ firstFamilies # <<>>
    /\ lastFamilies.at = clock
    /\ lastFamilies.res = firstFamilies[1]
    /\ KeysOf(lastFamilies.res) # FreshFamilyKeys

-----------------------------------------------------------------------------
(* Properties of the split-layout family and its packages.                 *)

HasPackageFile(path) == _get_file(path, "package")[1] # None

\* C2: when a split-layout family directory holds a top-level package.py or
\* package.yaml and also version subdirectories, family.iter_packages()
\* yields exactly one package, resolved with no version parameter.
C2_UnversionedPrecedence ==
    \A fam \in SplitFamilies :
        (/\ fam.id \in DOMAIN lastIter
         /\ lastIter[fam.id].at = clock
         /\ HasPackageFile(FamilyPath(fam))
         /\ ScanVersionDirs(FamilyPath(fam)) # <<>>)
            => (/\ Len(lastIter[fam.id].res) = 1
                /\ lastIter[fam.id].res[1].key = PackageKey(fam.key.vars["name"])
                /\ "version" \notin DOMAIN lastIter[fam.id].res[1].key.vars)

\* family.iter_packages() has run on the present tree, in which the family
\* directory holds a package file and a version directory.
C2_Witness ==
    \E fam \in SplitFamilies :
        /\ fam.id \in DOMAIN lastIter
        /\ lastIter[fam.id].at = clock
        /\ HasPackageFile(FamilyPath(fam))
        /\ ScanVersionDirs(FamilyPath(fam)) # <<>>
        /\ Len(lastIter[fam.id].res) = 1

\* The keys of the packages of the version directories now on disk.
FreshVersionKeys(fam) ==
    LET versions == ScanVersionDirs(FamilyPath(fam))
    IN [i \in 1..Len(versions) |->
           VersionedPackageKey(fam.key.vars["name"], Some(versions[i]))]

\* C4 as stated: once the packages of a split family were queried, a
\* repository.iter_packages(family) made after a version directory was added
\* includes a package for every version directory now on disk.
C4_RepositorySeesNewVersion ==
    \A fam \in SplitFamilies :
        (/\ fam.id \in DOMAIN firstRepoIter
         /\ lastRepoIter[fam.id].at = clock
         /\ ~HasPackageFile(FamilyPath(fam)))
            => Range(FreshVersionKeys(fam)) \subseteq Range(KeysOf(lastRepoIter[fam.id].res))

\* C4 amended: family.iter_packages(), called on the family resource, lists
\* the version directories again whenever the family directory's modification
\* time has changed and so includes the new version; repository.iter_packages
\* is memoised per family resource and returns the sequence of its first call.
C4_FamilySeesNewVersion ==
    \A fam \in SplitFamilies :
        /\ (/\ fam.id \in DOMAIN lastIter
            /\ lastIter[fam.id].at = clock
            /\ ~HasPackageFile(FamilyPath(fam)))
               => KeysOf(lastIter[fam.id].res) = FreshVersionKeys(fam)
        /\ fam.id \in DOMAIN firstRepoIter
               => lastRepoIter[fam.id].res = firstRepoIter[fam.id]

\* Both queries were made on the present tree: family.iter_packages() gave a
\* package for a version directory that the repository's sequence, memoised
\* before the directory was added, does not hold.
C4_Witness ==
    \E fam \in SplitFamilies :
        /\ fam.id \in DOMAIN lastIter /\ fam.id \in DOMAIN firstRepoIter
        /\ lastIter[fam.id].at = clock
        /\ lastRepoIter[fam.id].at = clock
        /\ ~HasPackageFile(FamilyPath(fam))
        /\ \E k \in Range(FreshVersionKeys(fam)) :
              /\ k \in Range(KeysOf(lastIter[fam.id].res))
              /\ k \notin Range(KeysOf(lastRepoIter[fam.id].res))

\* C10 as stated: when the first data access of a package raised
\* PackageMetadataError, a data access made after its package file was
\* created succeeds, and its state handle is then the file's modification
\* time.
C10_LoadRetrySucceeds ==
    \A pkg \in SplitPackages :
        (/\ pkg.id \in DOMAIN firstData
         /\ firstData[pkg.id] = "PackageMetadataError"
         /\ lastData[pkg.id].at = clock
         /\ HasPackageFile(PackagePath(pkg)))
            => (/\ lastData[pkg.id].out = "ok"
                /\ (pkg.id \in DOMAIN lastHandle /\ lastHandle[pkg.id].at = clock)
                      => lastHandle[pkg.id].res # None)

\* C10 amended: the failure is terminal for the resource object: the result
\* of the probe for the package file is kept in the resource, so once a data
\* access raised PackageMetadataError every later data access of the same
\* resource raises it, and its state handle is the unset sentinel, also
\* after the package file has been created.
C10_MissingFileIsTerminal ==
    \A pkg \in SplitPackages :
        (pkg.id \in DOMAIN firstData /\ firstData[pkg.id] = "PackageMetadataError")
            => (/\ lastData[pkg.id].out = "PackageMetadataError"
                /\ pkg.id \in DOMAIN lastHandle => lastHandle[pkg.id].res = None)

\* The data and the state handle of a package were read on the present tree,
\* where its package file exists, after the first data access had raised:
\* the read raised again and the handle is unset.
C10_Witness ==
    \E pkg \in SplitPackages :
        /\ pkg.id \in DOMAIN firstData /\ pkg.id \in DOMAIN lastHandle
        /\ firstData[pkg.id] = "PackageMetadataError"
        /\ lastData[pkg.id].at = clock
        /\ lastHandle[pkg.id].at = clock
        /\ HasPackageFile(PackagePath(pkg))
        /\ lastData[pkg.id].out = "PackageMetadataError"
        /\ lastHandle[pkg.id].res = None

-----------------------------------------------------------------------------
(* Properties of the legacy formats.                                       *)

\* C5: a loaded split-layout package whose package file has no timestamp and
\* whose directory holds .metadata/release_time.txt (and no release.yaml) has
\* the integer of that file as its timestamp when the stripped content is an
\* integer, and no timestamp when it is not.
C5_LegacyTimestampBackfilled ==
    \A pkg \in SplitPackages :
        LET dir == PackagePath(pkg)
            release_time == join(join(dir, ".metadata"), "release_time.txt")
        IN (/\ pkg.id \in DOMAIN cachedData
            /\ "timestamp" \notin DOMAIN fs[cachedFilepath[pkg.id][1][1]].data
            /\ ~isfile(join(dir, "release.yaml"))
            /\ isfile(release_time))
               => LET parsed == int(strip(fs[release_time].data["text"]))
                  IN IF parsed # None
                     THEN /\ "timestamp" \in DOMAIN cachedData[pkg.id]
                          /\ cachedData[pkg.id]["timestamp"] = parsed[1]
                     ELSE "timestamp" \notin DOMAIN cachedData[pkg.id]

\* The text _update_changelog was given: the changelog, joined when it is a
\* list of lines.
GivenChangelog ==
    LET a == clArgs[1]
        given == IF a.file_format = "yaml" THEN a.data["changelog"] ELSE a.data
    IN IF given.kind = "list" THEN JoinLines(given.v) ELSE given.v

ReturnedChangelog ==
    IF clArgs[1].file_format = "yaml" THEN clResult[1]["changelog"] ELSE clResult[1]

HasChangelog ==
    clArgs[1].file_format = "yaml" => "changelog" \in DOMAIN clArgs[1].data

-----------------------------------------------------------------------------
(* Properties of the combined layout.                                      *)

\* The document of the combined family a combined package belongs to.
ParentDoc(pkg) ==
    LET fam == CHOOSE f \in CombinedFamilies :
                   f.key = CombinedFamilyKey(pkg.key.vars["name"], Get(pkg.key, "ext"))
    IN cachedData[fam.id]

OverridesOf(base) ==
    IF "version_overrides" \in DOMAIN base THEN base["version_overrides"] ELSE <<>>

ProbeVersions == {<<>>, <<1, 0>>, <<1, 0, 1>>, <<1, 1>>, <<1, 2>>, <<2>>}

PairwiseDisjoint(overrides) ==
    \A i, j \in 1..Len(overrides) :
        i # j => \A v \in ProbeVersions :
                    ~(RangeContains(overrides[i][1], v) /\ RangeContains(overrides[j][1], v))

Payload(data) == DOMAIN data \ {"versions", "version_overrides", "version"}

\* C3: when a combined family declares versions and its override ranges are
\* pairwise disjoint, the loaded document of each of its packages is the
\* family's document updated with the override whose range contains the
\* package's version, or with none when no range contains it; with versions
\* [1.0, 1.1, 1.2] and overrides {'1.0': requires python-2.5, '1.1+':
\* requires python-2.6}, package 1.0 requires python-2.5 and packages 1.1 and
\* 1.2 require python-2.6.
C3_OverrideOfContainingRange ==
    \A pkg \in CombinedPackages :
        pkg.id \in DOMAIN cachedData =>
            LET base == ParentDoc(pkg)
                doc == cachedData[pkg.id]
                overrides == OverridesOf(base)
                version == Version(Get(pkg.key, "version"))
                matching == {i \in 1..Len(overrides) :
                                RangeContains(overrides[i][1], version)}
                override == IF matching = {} THEN EmptyDoc
                            ELSE overrides[CHOOSE i \in matching : TRUE][2]
                expected == DictUpdate(base, override)
            IN ("versions" \in DOMAIN base /\ PairwiseDisjoint(overrides)) =>
                  /\ Cardinality(matching) <= 1
                  /\ Payload(doc) = Payload(expected)
                  /\ \A k \in Payload(expected) : doc[k] = expected[k]
                  /\ "versions" \notin DOMAIN doc
                  /\ doc["version"] = Get(pkg.key, "version")
                  /\ (/\ base["versions"] = ExampleVersions
                      /\ Range(overrides) = Range(ExampleOverrides)) =>
                        doc["requires"] = IF Get(pkg.key, "version") = Some("1.0")
                                          THEN Python25 ELSE Python26

\* Packages 1.0 and 1.1 of the family with the example's versions and
\* overrides are loaded, one with each override.
C3_Witness ==
    \E p0, p1 \in CombinedPackages :
        /\ Get(p0.key, "version") = Some("1.0")
        /\ Get(p1.key, "version") = Some("1.1")
        /\ p0.id \in DOMAIN cachedData /\ p1.id \in DOMAIN cachedData
        /\ ParentDoc(p0)["versions"] = ExampleVersions
        /\ OverridesOf(ParentDoc(p0)) = ExampleOverrides
        /\ cachedData[p0.id]["requires"] = Python25
        /\ cachedData[p1.id]["requires"] = Python26

NumVariants(doc) == IF "variants" \in DOMAIN doc THEN Len(doc["variants"]) ELSE 0

\* C7: iter_variants of a combined package whose document has no variants,
\* or an empty variants sequence, yields one variant, with a null index; with
\* n > 0 variants it yields n variants with the indexes 0..n-1 in that order;
\* each is the registry's resource for the package's own location, name, ext
\* and version.
C7_VariantIndexes ==
    \A pkg \in CombinedPackages :
        pkg.id \in DOMAIN lastVariants =>
            LET n == NumVariants(cachedData[pkg.id])
                res == lastVariants[pkg.id].res
                KeyAt(index) ==
                    [kind |-> "filesystem.variant.combined",
                     vars |-> ("location" :> pkg.key.vars["location"]
                               @@ "name" :> pkg.key.vars["name"]
                               @@ "ext" :> pkg.key.vars["ext"]
                               @@ "version" :> Get(pkg.key, "version")
                               @@ "index" :> index)]
            IN /\ \A i \in 1..Len(res) : Lookup(pool, res[i].key) = {res[i]}
               /\ IF n = 0
                  THEN Len(res) = 1 /\ res[1].key = KeyAt(None)
                  ELSE /\ Len(res) = n
                       /\ \A i \in 1..n : res[i].key = KeyAt(Some(i - 1))

\* One package without a variants field has yielded its single variant, and
\* another with several variants has yielded one variant for each.
C7_Witness ==
    \E p0, p1 \in CombinedPackages :
        /\ p0.id \in DOMAIN lastVariants /\ p1.id \in DOMAIN lastVariants
        /\ "variants" \notin DOMAIN cachedData[p0.id]
        /\ Len(lastVariants[p0.id].res) = 1
        /\ Get(lastVariants[p0.id].res[1].key, "index") = None
        /\ NumVariants(cachedData[p1.id]) = MaxVariants
        /\ Len(lastVariants[p1.id].res) = MaxVariants
        /\ Get(lastVariants[p1.id].res[MaxVariants].key, "index") = Some(MaxVariants - 1)

-----------------------------------------------------------------------------
(* Properties of the families of one name.                                 *)

NameOf(resource) == resource.key.vars["name"]

\* C11: whatever the root directory holds, iter_package_families yields at
\* most one family per name, the split-layout family whenever the directory
\* name/ exists, and the resource get_package_family(name) returns for the
\* same tree.
C11_OneFamilyPerName ==
    lastFamilies.at = clock =>
        LET res == lastFamilies.res
        IN /\ \A i, j \in 1..Len(res) : i # j => NameOf(res[i]) # NameOf(res[j])
           /\ \A i \in 1..Len(res) :
                 /\ isdir(join(Root, NameOf(res[i])))
                       => res[i].key.kind = "filesystem.family"
                 /\ lastFamily[NameOf(res[i])].at = clock
                       => lastFamily[NameOf(res[i])].res = Some(res[i])

\* C12: get_last_release_time never raises, for a split and for a combined
\* family: it returns the modification time of the family directory or of
\* the family file, and 0 when that path is missing, also when the path was
\* removed after the family was resolved.
C12_ReleaseTimeNeverRaises ==
    \A fam \in SplitFamilies \cup CombinedFamilies :
        (fam.id \in DOMAIN lastReleaseTime /\ lastReleaseTime[fam.id].at = clock)
            => /\ lastReleaseTime[fam.id].out = "ok"
               /\ lastReleaseTime[fam.id].res =
                      IF fam.key.kind = "filesystem.family"
                      THEN IF exists(<<NameOf(fam)>>) THEN fs[<<NameOf(fam)>>].mtime ELSE 0
                      ELSE LET file == <<FileName(NameOf(fam), fam.key.vars["ext"])>>
                           IN IF exists(file) THEN fs[file].mtime ELSE 0

\* The last release time of a split and of a combined family was read on
\* the present tree: one path was removed after its family was resolved and
\* gave 0, the other was changed and gave its modification time.
C12_Witness ==
    \E f1, f2 \in SplitFamilies \cup CombinedFamilies :
        /\ f1.key.kind # f2.key.kind
        /\ f1.id \in DOMAIN lastReleaseTime /\ f2.id \in DOMAIN lastReleaseTime
        /\ lastReleaseTime[f1.id].at = clock /\ lastReleaseTime[f2.id].at = clock
        /\ ~exists(ReleaseTimePath(f1)) /\ lastReleaseTime[f1.id].res = 0
        /\ exists(ReleaseTimePath(f2)) /\ lastReleaseTime[f2.id].res > 0

-----------------------------------------------------------------------------
(* Properties of parents.                                                  *)

\* The resources whose iteration has yielded r.
YieldersOf(r) ==
    {q \in pool :
        \/ q.id \in DOMAIN lastIter /\ r \in Range(lastIter[q.id].res)
        \/ q.id \in DOMAIN lastVariants /\ r \in Range(lastVariants[q.id].res)}

\* C13: in both layouts, for versioned and unversioned packages, the key a
\* package or a variant resolves its parent with is the key of the resource
\* whose iteration yielded it, so that its parent is that resource.
C13_ParentIsYielder ==
    \A r \in Children :
        r.id \in DOMAIN cachedParent =>
            \A q \in YieldersOf(r) : ParentKey(r) = q.key /\ cachedParent[r.id] = q

-----------------------------------------------------------------------------
(* Further properties of the combined layout.                              *)

\* C14: no loaded document of a combined package holds the key versions or
\* the key version_overrides, whatever the family's document.
C14_NoBookkeepingKeys ==
    \A pkg \in CombinedPackages :
        pkg.id \in DOMAIN cachedData =>
            /\ "versions" \notin DOMAIN cachedData[pkg.id]
            /\ "version_overrides" \notin DOMAIN cachedData[pkg.id]

\* The overrides of a package's family whose range contains its version,
\* as indexes into the mapping's iteration order.
MatchingOverrides(pkg) ==
    LET overrides == OverridesOf(ParentDoc(pkg))
    IN {i \in 1..Len(overrides) :
           RangeContains(overrides[i][1], Version(Get(pkg.key, "version")))}

Min(S) == CHOOSE i \in S : \A j \in S : i <= j
Max(S) == CHOOSE i \in S : \A j \in S : j <= i

-----------------------------------------------------------------------------
(* Further properties of the legacy formats.                               *)

\* The document of the package file a loaded split-layout package was read
\* from.
FileDoc(pkg) == fs[cachedFilepath[pkg.id][1][1]].data

C17_HandlesAreCurrentMtime ==
    \A id \in DOMAIN lastHandle :
        (lastHandle[id].at = clock /\ isfile(<<"bar.yaml">>))
            => lastHandle[id].res = Some(getmtime(<<"bar.yaml">>))

\* C17 (amended): the state handle a package or a variant reports is the one
\* its first read found, whatever is written to the family file afterwards;
\* that first read found the modification time the family file had then; a
\* variant reports the handle kept by its parent package.
C17_HandleOfFirstRead ==
    /\ \A pkg \in CombinedPackages :
          pkg.id \in DOMAIN lastHandle
              => /\ pkg.id \in DOMAIN firstHandle
                 /\ lastHandle[pkg.id].res = firstHandle[pkg.id].res
                 /\ lastHandle[pkg.id].res = cachedHandle[pkg.id]
                 /\ (firstHandle[pkg.id].at = clock /\ isfile(<<"bar.yaml">>))
                        => firstHandle[pkg.id].res = Some(getmtime(<<"bar.yaml">>))
    /\ \A variant \in CombinedVariants :
          variant.id \in DOMAIN lastHandle
              => /\ variant.id \in DOMAIN cachedParent
                 /\ lastHandle[variant.id].res = cachedHandle[cachedParent[variant.id].id]

\* Two packages of the family report different state handles on the present
\* tree, one of them read before the last write and again after it.
C17_Witness ==
    \E p, q \in CombinedPackages :
        /\ p.id \in DOMAIN lastHandle /\ q.id \in DOMAIN lastHandle
        /\ lastHandle[p.id].at = clock /\ lastHandle[q.id].at = clock
        /\ firstHandle[p.id].at < clock
        /\ lastHandle[p.id].res # lastHandle[q.id].res
        /\ \E variant \in CombinedVariants : variant.id \in DOMAIN lastHandle

\* The lookup of the package's file found none.
NoFileFound(pkg) ==
    pkg.id \in DOMAIN cachedFilepath /\ cachedFilepath[pkg.id][1] = None

DeclaredVersions(fam) == Field(fs[CombinedFamilyFilepath(fam)].data, "versions")

\* C19: iter_packages of a combined family yields one package, resolved
\* without a version parameter, when the versions field is absent or empty;
\* otherwise it yields one package per declared version, in the order of the
\* declaration.
C19_OnePackagePerDeclaredVersion ==
    \A fam \in CombinedFamilies :
        fam.id \in DOMAIN lastIter
            => LET res == lastIter[fam.id].res
                   versions == DeclaredVersions(fam)
               IN IF versions = None \/ versions[1] = <<>>
                  THEN /\ Len(res) = 1
                       /\ res[1].key.kind = "filesystem.package.combined"
                       /\ "version" \notin DOMAIN res[1].key.vars
                       /\ res[1].key.vars["name"] = fam.key.vars["name"]
                  ELSE /\ Len(res) = Len(versions[1])
                       /\ \A i \in 1..Len(res) :
                             /\ res[i].key.kind = "filesystem.package.combined"
                             /\ res[i].key.vars["name"] = fam.key.vars["name"]
                             /\ "version" \in DOMAIN res[i].key.vars
                             /\ res[i].key.vars["version"] = Some(versions[1][i])

\* A family declaring its versions out of version order was iterated.
C19_Witness ==
    \E fam \in CombinedFamilies :
        /\ fam.id \in DOMAIN lastIter
        /\ DeclaredVersions(fam) = Some(UnorderedVersions)
        /\ Len(lastIter[fam.id].res) = 2

\* The document of the family's file
FamilyFileDoc(fam) == fs[CombinedFamilyFilepath(fam)].data

====
